---- MODULE Spec2Model ----
(***************************************************************************)
(* Model of AppleMusicXmlToLidarr.py: the first run (main / albums_main),  *)
(* the recheck run (recheck_not_found_items), the remote matcher, the      *)
(* album extraction and the name cleaning.                                 *)
(*                                                                         *)
(* One program invocation is a walk of pc from "idle" through the steps of *)
(* the command and back to "idle"; the two output files outlive it.        *)
(***************************************************************************)
EXTENDS Integers, Sequences, FiniteSets, TLC

VARIABLES
    mode,            \* subcommand: "tracks" or "albums"
    foundFile,       \* output_json on disk
    nfFile,          \* not_found_json on disk
    pc,              \* position of the running invocation, "idle" when none
    cmd,             \* command of the current or last invocation: "main", "recheck"
    items,           \* songs / albums / not_found_items being iterated
    idx,             \* 1-based position of the for loop
    found,           \* found (first run) or newly_found (recheck)
    not_found,       \* not_found (first run) or still_not_found (recheck)
    existing_found,  \* recheck: the loaded found list
    outcome,         \* how the last invocation ended
    runs,            \* invocations started so far
    log,             \* history: one entry per matcher call of this invocation
    events,          \* history: calls, returns and delays of this invocation
    foundBefore,     \* history: output_json when this invocation started
    nfBefore,        \* history: not_found_json when this invocation started
    prev,            \* history: command and outcome of the invocation before
    stoppedAt,       \* history: pc at which the invocation was interrupted
    service,         \* the remote service as a function of the record
    library,         \* the plist's Tracks mapping, values in file order
    album_list,      \* result of extract_unique_albums
    again_list,      \* the deduplication applied to album_list
    name,            \* argument of clean_name_for_search
    cleaned          \* its result

vars == <<mode, foundFile, nfFile, pc, cmd, items, idx, found, not_found,
          existing_found, outcome, runs, log, events, foundBefore, nfBefore,
          prev, stoppedAt, service, library, album_list, again_list,
          name, cleaned>>

albumVars == <<library, album_list, again_list>>
cleanVars == <<name, cleaned>>

----------------------------------------------------------------------------
(* Bounds *)

MaxRecs  == 2   \* longest record list: an input batch, a not-found file
MaxFound == 1   \* longest found file before the first invocation
MaxRuns  == 2   \* invocations in one behaviour of SpecFixed
MaxLib   == 3   \* longest library handed to extract_unique_albums
MaxFrags == 3   \* fragments a name is put together from

----------------------------------------------------------------------------
(* Values *)

None == "None"                       \* Python's None
Ids  == {"m1", "m2"}                 \* MusicBrainz ids the service can return

Tracks == { [artist |-> "A", title |-> "T1", album |-> "X"],
            [artist |-> "A", title |-> "T2", album |-> None] }
Albums == { [artist |-> "A", album |-> "X"],
            [artist |-> "A", album |-> "Y"] }
Records(m) == IF m = "tracks" THEN Tracks ELSE Albums

SeqsUpTo(S, n) == UNION { [1..k -> S] : k \in 0..n }

NoDup(s) == \A i, j \in 1..Len(s) : s[i] = s[j] => i = j

FoundEntry(mbid) == [MusicBrainzId |-> mbid]

\* A file: absent, present with text json.load rejects, or a JSON array.
Absent      == [kind |-> "absent", data |-> <<>>]
Malformed   == [kind |-> "malformed", data |-> <<>>]
JsonList(s) == [kind |-> "list", data |-> s]

\* What one urlopen + json.load gives.  exc is the exception raised, or
\* "none"; otherwise haskey tells whether the list field is in the body and
\* results is that list, each element a mapping with or without "id", or not
\* a mapping at all.
Excs == {"URLError", "timeout", "JSONDecodeError"}
Result(shape, id) == [shape |-> shape, id |-> id]
Body(haskey, results) == [exc |-> "none", haskey |-> haskey, results |-> results]
Raises(e) == [exc |-> e, haskey |-> FALSE, results |-> <<>>]
Responses ==
    { Raises(e) : e \in Excs }
    \cup { Body(FALSE, <<>>), Body(TRUE, <<>>) }
    \cup { Body(TRUE, <<Result("dict", i)>>) : i \in Ids }
    \cup { Body(TRUE, <<Result("dict_noid", "")>>),
           Body(TRUE, <<Result("notdict", "")>>) }

\* A matcher call ends by returning a value or by an exception leaving it.
Returned(v) == [raised |-> FALSE, mbid |-> v]
Propagated  == [raised |-> TRUE, mbid |-> ""]

----------------------------------------------------------------------------
(* Remote Matcher *)

\* "transport failure, timeout, or malformed response" (history only)
Failed(resp) ==
    \/ resp.exc # "none"
    \/ resp.haskey /\ resp.results # <<>> /\ resp.results[1].shape = "notdict"

\* Mutant of search_musicbrainz_recording: no try block, the exception
\* leaves the matcher.
search_musicbrainz_recording_mut(item, resp) ==
    IF resp.exc # "none"
    THEN Propagated
    ELSE IF resp.haskey /\ resp.results # <<>>
         THEN LET first == resp.results[1] IN
              IF first.shape = "notdict"
              THEN Propagated
              ELSE IF first.shape = "dict"
                   THEN Returned(first.id)
                   ELSE Returned("")
         ELSE Returned("")

\* lines 66-74: the try block; every Exception is logged and falls through
\* to the final return "".
search_musicbrainz_recording(item, resp) ==
    IF resp.exc # "none"
    THEN Returned("")
    ELSE IF resp.haskey /\ resp.results # <<>>
         THEN LET first == resp.results[1] IN
              IF first.shape = "notdict"
              THEN Returned("")                  \* .get raises, caught
              ELSE IF first.shape = "dict"
                   THEN Returned(first.id)
                   ELSE Returned("")             \* .get("id", "")
         ELSE Returned("")

\* lines 97-105
search_musicbrainz_release_group(item, resp) ==
    IF resp.exc # "none"
    THEN Returned("")
    ELSE IF resp.haskey /\ resp.results # <<>>
         THEN LET first == resp.results[1] IN
              IF first.shape = "notdict"
              THEN Returned("")
              ELSE IF first.shape = "dict"
                   THEN Returned(first.id)
                   ELSE Returned("")
         ELSE Returned("")

\* recheck_not_found / recheck_not_found_albums hand the matcher of their
\* mode to recheck_not_found_items as search_func.
search_func(m, item, resp) ==
    IF m = "tracks"
    THEN search_musicbrainz_recording(item, resp)
    ELSE search_musicbrainz_release_group(item, resp)

----------------------------------------------------------------------------
(* Library Reader *)

LibEntry(a, n, b) == [Artist |-> a, Name |-> n, Album |-> b]

\* Entries of the export file; None is a missing key.  LibEntries feed the
\* first run; extract_unique_albums is also run on the wider AlbumEntries.
LibEntries ==
    { LibEntry("A", "T1", "X"),  LibEntry("A", "T2", None),
      LibEntry("A", None, "Y"),  LibEntry("A", "", "X"),
      LibEntry(None, "T1", "X"), LibEntry("", "T2", "Y") }

AlbumEntries ==
    LibEntries \cup { LibEntry("B", "T1", "X"), LibEntry("A", "T1", "") }

Truthy(v) == v # None /\ v # ""

RECURSIVE parse_apple_music_xml(_)
parse_apple_music_xml(tracks) ==
    IF tracks = <<>> THEN <<>>
    ELSE LET track == Head(tracks)
             rest  == parse_apple_music_xml(Tail(tracks))
         IN  IF Truthy(track.Artist) /\ Truthy(track.Name)
             THEN <<[artist |-> track.Artist, title |-> track.Name,
                     album |-> track.Album]>> \o rest
             ELSE rest

\* Mutant of extract_loop: the key is the album alone.
RECURSIVE extract_loop_mut(_, _, _)
extract_loop_mut(tracks, unique_albums, list) ==
    IF tracks = <<>> THEN list
    ELSE LET track      == Head(tracks)
             unique_key == <<track.Album>>
         IN  IF Truthy(track.Artist) /\ Truthy(track.Album)
                /\ unique_key \notin unique_albums
             THEN extract_loop_mut(Tail(tracks), unique_albums \cup {unique_key},
                     Append(list, [artist |-> track.Artist,
                                   album |-> track.Album]))
             ELSE extract_loop_mut(Tail(tracks), unique_albums, list)

\* lines 134-147: the loop, with unique_albums the set of keys seen so far.
RECURSIVE extract_loop(_, _, _)
extract_loop(tracks, unique_albums, list) ==
    IF tracks = <<>> THEN list
    ELSE LET track      == Head(tracks)
             unique_key == <<track.Artist, track.Album>>
         IN  IF Truthy(track.Artist) /\ Truthy(track.Album)
                /\ unique_key \notin unique_albums
             THEN extract_loop(Tail(tracks), unique_albums \cup {unique_key},
                     Append(list, [artist |-> track.Artist,
                                   album |-> track.Album]))
             ELSE extract_loop(Tail(tracks), unique_albums, list)

extract_unique_albums(tracks) == extract_loop(tracks, {}, <<>>)

----------------------------------------------------------------------------
(* The program: one invocation at a time *)

FoundEntries == { FoundEntry(i) : i \in Ids }

FileStates(S, n) == {Absent, Malformed} \cup { JsonList(s) : s \in SeqsUpTo(S, n) }

LogEntry(item, resp, mbid) == [item |-> item, mbid |-> mbid, failed |-> Failed(resp)]

\* The process is gone: nothing of its memory is left.
Ended(o) ==
    /\ pc' = "idle"
    /\ cmd' = cmd
    /\ outcome' = o
    /\ items' = <<>>
    /\ idx' = 1
    /\ found' = <<>>
    /\ not_found' = <<>>
    /\ existing_found' = <<>>

Begin(c, allowed) ==
    /\ pc = "idle"
    /\ allowed
    /\ runs' = runs + 1
    /\ cmd' = c
    /\ prev' = [cmd |-> cmd, outcome |-> outcome]
    /\ outcome' = "running"
    /\ stoppedAt' = "none"
    /\ log' = <<>>
    /\ events' = <<>>
    /\ foundBefore' = foundFile
    /\ nfBefore' = nfFile
    /\ idx' = 1
    /\ found' = <<>>
    /\ not_found' = <<>>
    /\ existing_found' = <<>>

\* main, lines 280-284, and albums_main, lines 300-304: read the library,
\* enter the batch loop.
StartFirstRun(allowed) ==
    /\ Begin("main", allowed)
    /\ \E lib \in SeqsUpTo(LibEntries, MaxRecs) :
         items' = IF mode = "tracks" THEN parse_apple_music_xml(lib)
                                     ELSE extract_unique_albums(lib)
    /\ pc' = "loop"
    /\ UNCHANGED <<mode, foundFile, nfFile, service>>

Event(ev, item) == [ev |-> ev, item |-> item]

\* lines 68, 99: urlopen sends the request for the record the loop stands at
\* and blocks until the response is there.
SendRequest ==
    /\ pc = "loop"
    /\ idx <= Len(items)
    /\ pc' = "calling"
    /\ events' = Append(events, Event("call", items[idx]))
    /\ UNCHANGED <<mode, foundFile, nfFile, cmd, items, idx, found, not_found,
                   existing_found, outcome, runs, log, foundBefore, nfBefore,
                   prev, stoppedAt, service>>

\* lines 163, 180, 235: time.sleep(1), then the for loop takes the next record
Sleep ==
    /\ pc = "sleep"
    /\ pc' = "loop"
    /\ idx' = idx + 1
    /\ events' = Append(events, Event("sleep", items[idx]))
    /\ UNCHANGED <<mode, foundFile, nfFile, cmd, items, found, not_found,
                   existing_found, outcome, runs, log, foundBefore, nfBefore,
                   prev, stoppedAt, service>>

\* Mutant of Iteration: the delay is taken only after a miss.
Iteration_nodelay(r, resp) ==
    IF r.raised
    THEN /\ Ended("exception")
         /\ log' = Append(log, LogEntry(items[idx], resp, ""))
         /\ events' = Append(events, Event("return", items[idx]))
    ELSE /\ IF r.mbid # ""
            THEN /\ found' = Append(found, FoundEntry(r.mbid))
                 /\ not_found' = not_found
                 /\ pc' = "loop"
                 /\ idx' = idx + 1
            ELSE /\ not_found' = Append(not_found, items[idx])
                 /\ found' = found
                 /\ pc' = "sleep"
                 /\ idx' = idx
         /\ log' = Append(log, LogEntry(items[idx], resp, r.mbid))
         /\ events' = Append(events, Event("return", items[idx]))
         /\ UNCHANGED <<cmd, items, existing_found, outcome>>

\* Mutant of Iteration: a found entry is put in front of the list.
Iteration_mut(r, resp) ==
    IF r.raised
    THEN /\ Ended("exception")
         /\ log' = Append(log, LogEntry(items[idx], resp, ""))
         /\ events' = Append(events, Event("return", items[idx]))
    ELSE /\ IF r.mbid # ""
            THEN /\ found' = <<FoundEntry(r.mbid)>> \o found
                 /\ not_found' = not_found
            ELSE /\ not_found' = Append(not_found, items[idx])
                 /\ found' = found
         /\ log' = Append(log, LogEntry(items[idx], resp, r.mbid))
         /\ events' = Append(events, Event("return", items[idx]))
         /\ pc' = "sleep"
         /\ UNCHANGED <<cmd, items, idx, existing_found, outcome>>

\* The rest of one iteration of a batch loop once the response resp is there:
\* r is the matcher's result for it.  An exception leaving the matcher leaves
\* the loop and ends the process.
Iteration(r, resp) ==
    IF r.raised
    THEN /\ Ended("exception")
         /\ log' = Append(log, LogEntry(items[idx], resp, ""))
         /\ events' = Append(events, Event("return", items[idx]))
    ELSE /\ IF r.mbid # ""
            THEN /\ found' = Append(found, FoundEntry(r.mbid))
                 /\ not_found' = not_found
            ELSE /\ not_found' = Append(not_found, items[idx])
                 /\ found' = found
         /\ log' = Append(log, LogEntry(items[idx], resp, r.mbid))
         /\ events' = Append(events, Event("return", items[idx]))
         /\ pc' = "sleep"
         /\ UNCHANGED <<cmd, items, idx, existing_found, outcome>>

\* build_lidarr_json, lines 156-163
BuildLidarrStep(resp) ==
    /\ pc = "calling" /\ cmd = "main" /\ mode = "tracks"
    /\ Iteration(search_musicbrainz_recording(items[idx], resp), resp)
    /\ UNCHANGED <<mode, foundFile, nfFile, runs, foundBefore, nfBefore,
                   prev, stoppedAt, service>>

\* build_albums_json, lines 173-180
BuildAlbumsStep(resp) ==
    /\ pc = "calling" /\ cmd = "main" /\ mode = "albums"
    /\ Iteration(search_musicbrainz_release_group(items[idx], resp), resp)
    /\ UNCHANGED <<mode, foundFile, nfFile, runs, foundBefore, nfBefore,
                   prev, stoppedAt, service>>

\* Mutant of RecheckStep: the not-found file is rewritten after every record.
RecheckStep_mut(resp) ==
    /\ pc = "calling" /\ cmd = "recheck"
    /\ Iteration(search_func(mode, items[idx], resp), resp)
    /\ nfFile' = JsonList(not_found')
    /\ UNCHANGED <<mode, foundFile, runs, foundBefore, nfBefore,
                   prev, stoppedAt, service>>

\* recheck_not_found_items, lines 227-235
RecheckStep(resp) ==
    /\ pc = "calling" /\ cmd = "recheck"
    /\ Iteration(search_func(mode, items[idx], resp), resp)
    /\ UNCHANGED <<mode, foundFile, nfFile, runs, foundBefore, nfBefore,
                   prev, stoppedAt, service>>

\* The loop is exhausted: build_*_json returns (found, not_found); recheck
\* goes on to line 238.
LoopDone ==
    /\ pc = "loop"
    /\ idx > Len(items)
    /\ pc' = "open_found"
    /\ UNCHANGED <<mode, foundFile, nfFile, cmd, items, idx, found, not_found,
                   existing_found, outcome, runs, log, events, foundBefore, nfBefore,
                   prev, stoppedAt, service>>

\* recheck_not_found / recheck_not_found_albums call recheck_not_found_items
StartRecheck(allowed) ==
    /\ Begin("recheck", allowed)
    /\ items' = <<>>
    /\ pc' = "load_nf"
    /\ UNCHANGED <<mode, foundFile, nfFile, service>>

\* Mutant of LoadNotFound: the check for an empty list is missing.
LoadNotFound_mut ==
    /\ pc = "load_nf"
    /\ IF nfFile.kind = "absent"
       THEN Ended("error_nf_missing")
       ELSE IF nfFile.kind = "malformed"
       THEN Ended("error_nf_invalid")
       ELSE /\ items' = nfFile.data
            /\ pc' = "load_found"
            /\ UNCHANGED <<cmd, idx, found, not_found, existing_found, outcome>>
    /\ UNCHANGED <<mode, foundFile, nfFile, runs, log, events, foundBefore, nfBefore,
                   prev, stoppedAt, service>>

\* recheck_not_found_items, lines 195-210
LoadNotFound ==
    /\ pc = "load_nf"
    /\ IF nfFile.kind = "absent"
       THEN Ended("error_nf_missing")
       ELSE IF nfFile.kind = "malformed"
       THEN Ended("error_nf_invalid")
       ELSE IF nfFile.data = <<>>
       THEN Ended("nothing_to_recheck")
       ELSE /\ items' = nfFile.data
            /\ pc' = "load_found"
            /\ UNCHANGED <<cmd, idx, found, not_found, existing_found, outcome>>
    /\ UNCHANGED <<mode, foundFile, nfFile, runs, log, events, foundBefore, nfBefore,
                   prev, stoppedAt, service>>

\* Mutant of LoadFound: a malformed found file is read as the empty list.
LoadFound_mut ==
    /\ pc = "load_found"
    /\ existing_found' = foundFile.data
    /\ pc' = "loop"
    /\ UNCHANGED <<cmd, items, idx, found, not_found, outcome>>
    /\ UNCHANGED <<mode, foundFile, nfFile, runs, log, events, foundBefore, nfBefore,
                   prev, stoppedAt, service>>

\* recheck_not_found_items, lines 212-221
LoadFound ==
    /\ pc = "load_found"
    /\ IF foundFile.kind = "malformed"
       THEN Ended("error_found_invalid")
       ELSE /\ existing_found' = foundFile.data   \* absent: stays []
            /\ pc' = "loop"
            /\ UNCHANGED <<cmd, items, idx, found, not_found, outcome>>
    /\ UNCHANGED <<mode, foundFile, nfFile, runs, log, events, foundBefore, nfBefore,
                   prev, stoppedAt, service>>

\* Mutant of FoundToWrite: the recheck dumps newly_found alone.
FoundToWrite_mut == found

\* What is dumped to output_json: found (main, albums_main), all_found
\* (recheck, line 238).
FoundToWrite == IF cmd = "recheck" THEN existing_found \o found ELSE found

\* lines 239, 287, 307: open(output_json, "w"); the file exists and is empty.
OpenFound ==
    /\ pc = "open_found"
    /\ foundFile' = Malformed
    /\ pc' = "dump_found"
    /\ UNCHANGED <<mode, nfFile, cmd, items, idx, found, not_found,
                   existing_found, outcome, runs, log, events, foundBefore, nfBefore,
                   prev, stoppedAt, service>>

\* lines 240, 288, 308: json.dump and the end of the with block
DumpFound ==
    /\ pc = "dump_found"
    /\ foundFile' = JsonList(FoundToWrite)
    /\ pc' = "open_nf"
    /\ UNCHANGED <<mode, nfFile, cmd, items, idx, found, not_found,
                   existing_found, outcome, runs, log, events, foundBefore, nfBefore,
                   prev, stoppedAt, service>>

\* lines 243, 292, 312: open(not_found_json, "w")
OpenNotFound ==
    /\ pc = "open_nf"
    /\ nfFile' = Malformed
    /\ pc' = "dump_nf"
    /\ UNCHANGED <<mode, foundFile, cmd, items, idx, found, not_found,
                   existing_found, outcome, runs, log, events, foundBefore, nfBefore,
                   prev, stoppedAt, service>>

\* Mutant of DumpNotFound: the list that was read is written back.
DumpNotFound_mut ==
    /\ pc = "dump_nf"
    /\ nfFile' = JsonList(IF cmd = "recheck" THEN items ELSE not_found)
    /\ Ended("complete")
    /\ UNCHANGED <<mode, foundFile, runs, log, events, foundBefore, nfBefore,
                   prev, stoppedAt, service>>

\* lines 243-244, 292-293, 312-313: json.dump and the end of the with block
DumpNotFound ==
    /\ pc = "dump_nf"
    /\ nfFile' = JsonList(not_found)
    /\ Ended("complete")
    /\ UNCHANGED <<mode, foundFile, runs, log, events, foundBefore, nfBefore,
                   prev, stoppedAt, service>>

\* The process is killed between two steps.
Interrupt ==
    /\ pc # "idle"
    /\ Ended("interrupted")
    /\ stoppedAt' = pc
    /\ log' = <<>>
    /\ events' = <<>>
    /\ UNCHANGED <<mode, foundFile, nfFile, runs, foundBefore, nfBefore,
                   prev, service>>

\* No invocation has run yet.
NotStarted ==
    /\ cmd = "none"
    /\ items = <<>>
    /\ idx = 1
    /\ found = <<>>
    /\ not_found = <<>>
    /\ existing_found = <<>>
    /\ outcome = "none"
    /\ runs = 0
    /\ log = <<>>
    /\ events = <<>>
    /\ foundBefore = foundFile
    /\ nfBefore = nfFile
    /\ prev = [cmd |-> "none", outcome |-> "none"]
    /\ stoppedAt = "none"

\* The two files are whatever the paths given on the command line hold.
InitProgram ==
    /\ mode \in {"tracks", "albums"}
    /\ foundFile \in FileStates(FoundEntries, MaxFound)
    /\ nfFile \in FileStates(Records(mode), MaxRecs)
    /\ pc = "idle"
    /\ NotStarted

NoService == [r \in {} |-> Raises("URLError")]

AlbumsIdle == library = <<>> /\ album_list = <<>> /\ again_list = <<>>
CleanIdle  == name = <<>> /\ cleaned = <<>>

\* Spec follows one invocation from every state of the two files.
OneRun == runs = 0

Init ==
    /\ InitProgram
    /\ service = NoService
    /\ AlbumsIdle
    /\ CleanIdle

Next ==
    \/ StartFirstRun(OneRun) /\ UNCHANGED <<albumVars, cleanVars>>
    \/ SendRequest /\ UNCHANGED <<albumVars, cleanVars>>
    \/ (\E resp \in Responses : BuildLidarrStep(resp)) /\ UNCHANGED <<albumVars, cleanVars>>
    \/ (\E resp \in Responses : BuildAlbumsStep(resp)) /\ UNCHANGED <<albumVars, cleanVars>>
    \/ Sleep /\ UNCHANGED <<albumVars, cleanVars>>
    \/ LoopDone /\ UNCHANGED <<albumVars, cleanVars>>
    \/ StartRecheck(OneRun) /\ UNCHANGED <<albumVars, cleanVars>>
    \/ LoadNotFound /\ UNCHANGED <<albumVars, cleanVars>>
    \/ LoadFound /\ UNCHANGED <<albumVars, cleanVars>>
    \/ (\E resp \in Responses : RecheckStep(resp)) /\ UNCHANGED <<albumVars, cleanVars>>
    \/ OpenFound /\ UNCHANGED <<albumVars, cleanVars>>
    \/ DumpFound /\ UNCHANGED <<albumVars, cleanVars>>
    \/ OpenNotFound /\ UNCHANGED <<albumVars, cleanVars>>
    \/ DumpNotFound /\ UNCHANGED <<albumVars, cleanVars>>
    \/ Interrupt /\ UNCHANGED <<albumVars, cleanVars>>

Spec == Init /\ [][Next]_vars

----------------------------------------------------------------------------
(* Vocabulary of the properties *)

\* The found entries a log of matcher calls gives, in call order.
RECURSIVE Hits(_)
Hits(l) ==
    IF l = <<>> THEN <<>>
    ELSE (IF Head(l).mbid # "" THEN <<FoundEntry(Head(l).mbid)>> ELSE <<>>)
         \o Hits(Tail(l))

\* The records of its whose call (same position in l) returned no id.
RECURSIVE MissesFrom(_, _, _)
MissesFrom(its, l, k) ==
    IF k > Len(its) THEN <<>>
    ELSE (IF l[k].mbid = "" THEN <<its[k]>> ELSE <<>>) \o MissesFrom(its, l, k + 1)

Misses(its, l) == MissesFrom(its, l, 1)

CalledOn(l) == [i \in 1..Len(l) |-> l[i].item]

IsPrefix(s, t) == Len(s) <= Len(t) /\ \A i \in 1..Len(s) : s[i] = t[i]

Size(f) == Len(f.data)

ErrorOutcomes == {"error_nf_missing", "error_nf_invalid", "error_found_invalid"}
ReturnOutcomes == ErrorOutcomes \cup {"nothing_to_recheck", "complete"}

PreWrite == {"load_nf", "load_found", "loop", "calling", "sleep", "open_found"}
Writing  == {"open_found", "dump_found", "open_nf", "dump_nf"}

FilesUntouched == foundFile = foundBefore /\ nfFile = nfBefore

\* build_lidarr_json / build_albums_json has returned to main / albums_main
BuildReturned == cmd = "main" /\ pc = "open_found"

\* recheck_not_found_items has returned
RecheckReturned == cmd = "recheck" /\ pc = "idle" /\ outcome \in ReturnOutcomes

----------------------------------------------------------------------------
(* C1 *)

\* C1: when build_lidarr_json / build_albums_json returns (found, not_found)
\* for the input items, whatever the lookups answered: one call was made per
\* input record in input order, not_found is the subsequence of the input
\* whose call returned no id, found is one {MusicBrainzId} entry per call
\* that returned an id, in input order, and the lengths add up to N.
C1_Partition ==
    BuildReturned =>
        /\ CalledOn(log) = items
        /\ not_found = Misses(items, log)
        /\ found = Hits(log)
        /\ Len(found) + Len(not_found) = Len(items)

C1_Witness ==
    /\ BuildReturned
    /\ Len(items) >= 2
    /\ log[1].mbid = "" /\ log[2].mbid # ""
    /\ Len(found) = 1 /\ Len(not_found) = 1

----------------------------------------------------------------------------
(* C2 *)

\* C2: when a recheck has returned, the two files hold together as many
\* entries as before, the not-found file has not grown and the found file
\* has not shrunk; when it ran to completion every record of the prior
\* not-found file was looked up once and is either one new found entry (its
\* call returned an id) or retained in the not-found file (it did not); a
\* recheck that stopped early changed neither file.
C2_Conservation ==
    RecheckReturned =>
        /\ Size(nfFile) <= Size(nfBefore)
        /\ Size(foundFile) >= Size(foundBefore)
        /\ Size(foundFile) + Size(nfFile) = Size(foundBefore) + Size(nfBefore)
        /\ outcome = "complete" =>
              /\ CalledOn(log) = nfBefore.data
              /\ nfFile = JsonList(Misses(nfBefore.data, log))
              /\ Size(foundFile) - Size(foundBefore) = Len(Hits(log))
              /\ Len(Hits(log)) + Size(nfFile) = Size(nfBefore)
        /\ outcome # "complete" => FilesUntouched

C2_Witness ==
    /\ RecheckReturned
    /\ outcome = "complete"
    /\ Size(foundBefore) = 1
    /\ Size(nfBefore) = 2
    /\ Size(nfFile) = 1
    /\ Size(foundFile) = 2

----------------------------------------------------------------------------
(* C3 *)

\* C3: after a recheck that ran to completion the found file is the found
\* list loaded at the start (empty when the file was absent) followed by the
\* entries found in this pass in processing order, and the not-found file is
\* the records that failed again, in their original order; whenever a
\* recheck returns, the entries the found file held before are still its
\* first entries, and the not-found file holds no record it did not hold
\* before.
C3_RecheckResult ==
    RecheckReturned =>
        /\ outcome = "complete" =>
              /\ foundFile = JsonList(foundBefore.data \o Hits(log))
              /\ nfFile = JsonList(Misses(nfBefore.data, log))
        /\ IsPrefix(foundBefore.data, foundFile.data)
        /\ foundBefore.kind = "list" => foundFile.kind = "list"
        /\ \A i \in 1..Size(nfFile) :
              \E j \in 1..Size(nfBefore) : nfFile.data[i] = nfBefore.data[j]

C3_Witness ==
    /\ RecheckReturned
    /\ outcome = "complete"
    /\ Size(foundBefore) = 1
    /\ Size(nfBefore) = 2
    /\ Size(foundFile) = 3
    /\ foundFile.data[2] # foundFile.data[3]
    /\ foundFile.data[1] # foundFile.data[2]

----------------------------------------------------------------------------
(* C4 *)

NoWrite == FilesUntouched /\ log = <<>>

\* C4 as stated: in every state of the two files, an absent or malformed
\* not-found file and a malformed found file each end the recheck with an
\* error and no write; an absent found file is no error: it is read as the
\* empty list and the recheck goes on.
C4_Original ==
    RecheckReturned =>
        /\ nfBefore.kind = "absent" => outcome \in ErrorOutcomes /\ NoWrite
        /\ nfBefore.kind = "malformed" => outcome \in ErrorOutcomes /\ NoWrite
        /\ foundBefore.kind = "malformed" => outcome \in ErrorOutcomes /\ NoWrite
        /\ foundBefore.kind = "absent" /\ nfBefore.kind = "list" =>
              outcome \notin ErrorOutcomes
        /\ foundBefore.kind = "absent" /\ nfBefore.kind = "list"
           /\ nfBefore.data # <<>> =>
              /\ outcome = "complete"
              /\ foundFile = JsonList(Hits(log))

\* C4, amended: the not-found file is read first.  Absent or malformed, it
\* ends the recheck with an error.  The found file is read only when the
\* not-found file holds a non-empty list: malformed, it then ends the recheck
\* with an error; absent, it is no error, is read as the empty list, and the
\* recheck goes on to completion.  With an empty not-found list the recheck
\* ends without an error whatever the found file holds.  In none of the
\* stops is a lookup made or a file written.
C4_LoadErrors ==
    RecheckReturned =>
        /\ nfBefore.kind = "absent" => outcome = "error_nf_missing" /\ NoWrite
        /\ nfBefore.kind = "malformed" => outcome = "error_nf_invalid" /\ NoWrite
        /\ foundBefore.kind = "malformed" /\ nfBefore.kind = "list"
           /\ nfBefore.data # <<>> =>
              outcome = "error_found_invalid" /\ NoWrite
        /\ foundBefore.kind = "malformed" /\ nfBefore = JsonList(<<>>) =>
              outcome = "nothing_to_recheck" /\ NoWrite
        /\ foundBefore.kind = "absent" /\ nfBefore.kind = "list" =>
              outcome \notin ErrorOutcomes
        /\ foundBefore.kind = "absent" /\ nfBefore.kind = "list"
           /\ nfBefore.data # <<>> =>
              /\ outcome = "complete"
              /\ foundFile = JsonList(Hits(log))

C4_Witness ==
    /\ RecheckReturned
    /\ foundBefore.kind = "malformed"
    /\ nfBefore.kind = "list"
    /\ Size(nfBefore) = 2
    /\ outcome = "error_found_invalid"

C4_WitnessAbsentFound ==
    /\ RecheckReturned
    /\ foundBefore.kind = "absent"
    /\ Size(nfBefore) = 2
    /\ outcome = "complete"
    /\ Size(foundFile) = 1

----------------------------------------------------------------------------
(* C5 *)

\* C5: in every state of a recheck whose not-found file holds the empty list
\* no lookup has been made and both files are as they were (an absent found
\* file is still absent); the recheck returns saying there is nothing to do.
C5_EmptyNotFound ==
    cmd = "recheck" /\ nfBefore = JsonList(<<>>) =>
        /\ log = <<>>
        /\ FilesUntouched
        /\ pc \in {"idle", "load_nf"}
        /\ pc = "idle" => outcome \in {"nothing_to_recheck", "interrupted"}

C5_Witness ==
    /\ cmd = "recheck"
    /\ nfBefore = JsonList(<<>>)
    /\ foundBefore = Absent
    /\ foundFile = Absent
    /\ outcome = "nothing_to_recheck"

----------------------------------------------------------------------------
(* C7 *)

Last(s) == s[Len(s)]

\* C7: no exception ever leaves the matcher and ends the batch; a call whose
\* lookup failed (transport error, timeout, malformed response) returned the
\* empty id; right after it the record is the last of the not-found list and
\* the loop stands at the next record; and once the loop is over every
\* record has been looked up, the failed ones included.
C7_FailureIsNoMatch ==
    /\ outcome # "exception"
    /\ \A i \in 1..Len(log) : log[i].failed => log[i].mbid = ""
    /\ pc = "loop" /\ log # <<>> /\ Last(log).failed =>
          /\ not_found # <<>>
          /\ Last(not_found) = Last(log).item
          /\ idx = Len(log) + 1
          /\ outcome = "running"
    /\ pc \in Writing => Len(log) = Len(items)
    /\ pc = "idle" /\ outcome = "complete" =>
          nfFile = JsonList(MissesFrom(CalledOn(log), log, 1))

C7_Witness ==
    /\ pc = "idle"
    /\ outcome = "complete"
    /\ Len(log) = 2
    /\ log[1].failed
    /\ log[2].mbid # ""
    /\ nfFile = JsonList(<<log[1].item>>)

----------------------------------------------------------------------------
(* C10 *)

Interrupted == pc = "idle" /\ outcome = "interrupted"

\* C10 as stated: a first run or a recheck interrupted at any point leaves
\* both output files as they were when it started.
C10_Original == Interrupted => FilesUntouched

\* C10, amended: up to the end of the lookup loop no output file is written:
\* a run interrupted before its first write leaves both files as they were,
\* and the first write starts only when every record has been looked up.
\* The found file is written first and the not-found file is not touched
\* before the found file is complete, so a run interrupted between the two
\* writes leaves the found list of the new run beside the not-found file of
\* the prior run, and one interrupted during a write leaves that file
\* truncated.
C10_NoWriteBeforeBatchEnd ==
    /\ pc \in PreWrite => FilesUntouched
    /\ Interrupted /\ stoppedAt \in PreWrite => FilesUntouched
    /\ pc \in Writing => idx > Len(items) /\ Len(log) = Len(items)
    /\ pc \in {"dump_found", "open_nf"} => nfFile = nfBefore
    /\ Interrupted /\ stoppedAt = "dump_found" =>
          foundFile = Malformed /\ nfFile = nfBefore
    /\ Interrupted /\ stoppedAt = "open_nf" =>
          foundFile.kind = "list" /\ nfFile = nfBefore
    /\ Interrupted /\ stoppedAt = "dump_nf" =>
          foundFile.kind = "list" /\ nfFile = Malformed

C10_Witness ==
    /\ Interrupted
    /\ cmd = "recheck"
    /\ stoppedAt = "open_nf"
    /\ nfBefore.kind = "list"
    /\ foundBefore.kind = "list"
    /\ Size(foundFile) > Size(foundBefore)
    /\ nfFile = nfBefore

----------------------------------------------------------------------------
(* The remote service as a fixed function of the record *)

\* What the fixed service answers for a record: a failure, no result, or a
\* match.
FixedAnswers ==
    { Raises("timeout"), Body(TRUE, <<>>) }
    \cup { Body(TRUE, <<Result("dict", i)>>) : i \in Ids }

InitFixed ==
    /\ InitProgram
    /\ service \in [Records(mode) -> FixedAnswers]
    /\ AlbumsIdle
    /\ CleanIdle

MoreRuns == runs < MaxRuns

NextFixed ==
    \/ LoopDone /\ UNCHANGED <<albumVars, cleanVars>>
    \/ StartRecheck(MoreRuns) /\ UNCHANGED <<albumVars, cleanVars>>
    \/ LoadNotFound /\ UNCHANGED <<albumVars, cleanVars>>
    \/ LoadFound /\ UNCHANGED <<albumVars, cleanVars>>
    \/ SendRequest /\ UNCHANGED <<albumVars, cleanVars>>
    \/ (pc = "calling" /\ RecheckStep(service[items[idx]]))
          /\ UNCHANGED <<albumVars, cleanVars>>
    \/ Sleep /\ UNCHANGED <<albumVars, cleanVars>>
    \/ OpenFound /\ UNCHANGED <<albumVars, cleanVars>>
    \/ DumpFound /\ UNCHANGED <<albumVars, cleanVars>>
    \/ OpenNotFound /\ UNCHANGED <<albumVars, cleanVars>>
    \/ DumpNotFound /\ UNCHANGED <<albumVars, cleanVars>>
    \/ Interrupt /\ UNCHANGED <<albumVars, cleanVars>>

\* Rechecks, one after another, of files in any state, against a service that
\* does not change.
SpecFixed == InitFixed /\ [][NextFixed]_vars

----------------------------------------------------------------------------
(* C6 *)

\* C6: with the remote service a fixed function of the record, a recheck
\* that returns after an invocation that returned (a recheck in particular)
\* finds nothing new and leaves the found file and the not-found file as
\* that invocation left them: the not-found file does not grow and no record
\* already merged gets a second found entry.
C6_Idempotent ==
    RecheckReturned /\ prev.outcome \in ReturnOutcomes =>
        /\ FilesUntouched
        /\ Hits(log) = <<>>
        /\ outcome # "complete" => log = <<>>

C6_Witness ==
    /\ RecheckReturned
    /\ prev = [cmd |-> "recheck", outcome |-> "complete"]
    /\ outcome = "complete"
    /\ Size(foundFile) > MaxFound
    /\ Size(nfFile) = 1
    /\ FilesUntouched

----------------------------------------------------------------------------
(* extract_unique_albums on its own *)

\* No program invocation: the function is applied to a library.
ProgramIdle ==
    /\ mode = "albums"
    /\ foundFile = Absent
    /\ nfFile = Absent
    /\ NotStarted
    /\ service = NoService

InitAlbums ==
    /\ ProgramIdle
    /\ pc = "extract"
    /\ library \in SeqsUpTo(AlbumEntries, MaxLib)
    /\ album_list = <<>>
    /\ again_list = <<>>
    /\ CleanIdle

\* album_list = extract_unique_albums(xml_path)
ExtractAlbums ==
    /\ pc = "extract"
    /\ album_list' = extract_unique_albums(library)
    /\ pc' = "extracted"
    /\ UNCHANGED <<library, again_list>>

\* The list of {artist, album} read as track entries.
AsLibrary(list) ==
    [i \in 1..Len(list) |-> LibEntry(list[i].artist, None, list[i].album)]

\* The same deduplication applied to the extracted list.
ExtractAgain ==
    /\ pc = "extracted"
    /\ again_list' = extract_unique_albums(AsLibrary(album_list))
    /\ pc' = "extracted_again"
    /\ UNCHANGED <<library, album_list>>

NextAlbums ==
    \/ ExtractAlbums /\ UNCHANGED <<mode, foundFile, nfFile, cmd, items, idx,
            found, not_found, existing_found, outcome, runs, log, events, foundBefore,
            nfBefore, prev, stoppedAt, service, cleanVars>>
    \/ ExtractAgain /\ UNCHANGED <<mode, foundFile, nfFile, cmd, items, idx,
            found, not_found, existing_found, outcome, runs, log, events, foundBefore,
            nfBefore, prev, stoppedAt, service, cleanVars>>

SpecAlbums == InitAlbums /\ [][NextAlbums]_vars

----------------------------------------------------------------------------
(* C8 *)

HasPair(e) == Truthy(e.Artist) /\ Truthy(e.Album)
SamePair(e, f) == e.Artist = f.Artist /\ e.Album = f.Album

\* Positions of the library that hold the first occurrence of a pair.
FirstSeen(lib) ==
    { i \in 1..Len(lib) :
        HasPair(lib[i]) /\ \A j \in 1..(i - 1) : ~SamePair(lib[j], lib[i]) }

\* C8: the extracted list holds, for each position of the library that is
\* the first occurrence of an (artist, album) pair with both fields present
\* (neither missing nor empty), the pair of that position, in the order of
\* those positions, and nothing else: each pair occurs once, entries without
\* artist or album contribute nothing; and the deduplication applied to the
\* extracted list gives the same list.
C8_FirstOccurrences ==
    pc \in {"extracted", "extracted_again"} =>
        LET first == FirstSeen(library) IN
        /\ Len(album_list) = Cardinality(first)
        /\ \A i \in first :
              album_list[Cardinality({ j \in first : j <= i })]
                  = [artist |-> library[i].Artist, album |-> library[i].Album]
        /\ NoDup(album_list)
        /\ \A i \in 1..Len(library) :
              HasPair(library[i]) =>
                 Cardinality({ k \in 1..Len(album_list) :
                     /\ album_list[k].artist = library[i].Artist
                     /\ album_list[k].album = library[i].Album }) = 1
        /\ pc = "extracted_again" => again_list = album_list

C8_Witness ==
    /\ pc = "extracted_again"
    /\ Len(library) = 3
    /\ HasPair(library[1]) /\ HasPair(library[2]) /\ HasPair(library[3])
    /\ SamePair(library[1], library[3])
    /\ ~SamePair(library[1], library[2])
    /\ library[1].Album = library[2].Album
    /\ Len(album_list) = 2
    /\ again_list = album_list

----------------------------------------------------------------------------
(* clean_name_for_search *)

\* A name is the sequence of its characters; NoneName stands for None.
NoneName == <<None>>

Str_Single   == <<" ", "-", " ", "S", "i", "n", "g", "l", "e">>
Str_EP       == <<" ", "-", " ", "E", "P">>
Str_single   == <<" ", "-", " ", "s", "i", "n", "g", "l", "e">>
Str_ep       == <<" ", "-", " ", "e", "p">>

\* line 34
suffixes_to_remove == <<Str_Single, Str_EP, Str_single, Str_ep>>

EndsWith(s, suffix) ==
    /\ Len(s) >= Len(suffix)
    /\ SubSeq(s, Len(s) - Len(suffix) + 1, Len(s)) = suffix

\* lines 36-40: the first suffix of the list the name ends with is cut off
RECURSIVE remove_suffix(_, _)
remove_suffix(s, k) ==
    IF k > Len(suffixes_to_remove) THEN s
    ELSE IF EndsWith(s, suffixes_to_remove[k])
         THEN SubSeq(s, 1, Len(s) - Len(suffixes_to_remove[k]))
         ELSE remove_suffix(s, k + 1)

\* lines 30-40
clean_name_for_search(n) ==
    IF n = NoneName \/ n = <<>> THEN n
    ELSE remove_suffix(n, 1)

\* Pieces the names are put together from.
Fragments ==
    { <<"A">>, <<"b">>, <<" ">>,
      <<"(", "x", ")">>, <<" ", "(", "x", ")">>,
      <<"(", "x", " ", "(", "y", ")", ")">>,
      Str_Single, Str_EP, Str_single, Str_ep,
      <<" ", "-", " ", "E", "p">> }

RECURSIVE Flatten(_)
Flatten(ss) == IF ss = <<>> THEN <<>> ELSE Head(ss) \o Flatten(Tail(ss))

Names == { Flatten(fs) : fs \in SeqsUpTo(Fragments, MaxFrags) } \cup {NoneName}

InitClean ==
    /\ ProgramIdle
    /\ pc = "clean"
    /\ AlbumsIdle
    /\ name \in Names
    /\ cleaned = <<>>

\* lines 50-51, 84: the matchers clean the title and the album name
CleanName ==
    /\ pc = "clean"
    /\ cleaned' = clean_name_for_search(name)
    /\ pc' = "cleaned"
    /\ UNCHANGED name

NextClean ==
    CleanName /\ UNCHANGED <<mode, foundFile, nfFile, cmd, items, idx,
            found, not_found, existing_found, outcome, runs, log, events, foundBefore,
            nfBefore, prev, stoppedAt, service, albumVars>>

SpecClean == InitClean /\ [][NextClean]_vars

----------------------------------------------------------------------------
(* C9 *)

Lower(c) ==
    CASE c = "S" -> "s" [] c = "E" -> "e" [] c = "P" -> "p" [] c = "A" -> "a"
      [] OTHER -> c

LowerStr(s) == [i \in 1..Len(s) |-> Lower(s[i])]

\* the name ends with ' - Single' or ' - EP' in some mix of cases
SuffixOf(s) ==
    IF EndsWith(LowerStr(s), Str_single) THEN Len(Str_single)
    ELSE IF EndsWith(LowerStr(s), Str_ep) THEN Len(Str_ep)
    ELSE 0

HasParenthesis(s) == \E i \in 1..Len(s) : s[i] \in {"(", ")"}

HasSegment(s) == \E i, j \in 1..Len(s) : i < j /\ s[i] = "(" /\ s[j] = ")"

Trimmed(s) == s = <<>> \/ (Head(s) # " " /\ s[Len(s)] # " ")

RECURSIVE Trim(_)
Trim(s) ==
    IF s = <<>> THEN s
    ELSE IF Head(s) = " " THEN Trim(Tail(s))
    ELSE IF s[Len(s)] = " " THEN Trim(SubSeq(s, 1, Len(s) - 1))
    ELSE s

\* C9: the result of clean_name_for_search holds no parenthesised segment
\* and has no whitespace around it; for a name without parenthesis that ends
\* with ' - Single' or ' - EP' in any case it is the trimmed name without
\* that suffix; a trimmed name with no parenthesis and no such suffix comes
\* back unchanged, and so do the empty string and None.
C9_Original ==
    pc = "cleaned" =>
        IF name = NoneName \/ name = <<>>
        THEN cleaned = name
        ELSE /\ ~HasSegment(cleaned)
             /\ Trimmed(cleaned)
             /\ ~HasParenthesis(name) /\ SuffixOf(name) > 0 =>
                   cleaned = Trim(SubSeq(name, 1, Len(name) - SuffixOf(name)))
             /\ ~HasParenthesis(name) /\ SuffixOf(name) = 0 /\ Trimmed(name) =>
                   cleaned = name

-----------------------------------------------------------------------------
(* C11 *)

\* the events of one sort, in the order they happened
OfSort(es, ev) == SelectSeq(es, LAMBDA e : e.ev = ev)

\* the calls sent and not yet answered
Outstanding(es) == Len(OfSort(es, "call")) - Len(OfSort(es, "return"))

\* the records the matcher was called on, in the order of the calls
Requested == CalledOn(OfSort(events, "call"))

\* C11: in a first run and in a recheck the matcher is called once per record,
\* in input order, with at most one call outstanding at any time; each call
\* returns and is followed by the fixed delay before the next call starts, so
\* no two calls happen without a delay between them and no record is looked
\* up a second time within one run.
C11_OneCallPerRecordThenDelay ==
    \* at most one call is outstanding at any point of the run
    /\ \A k \in 1..Len(events) : Outstanding(SubSeq(events, 1, k)) \in {0, 1}
    /\ Outstanding(events) = (IF pc = "calling" THEN 1 ELSE 0)
    \* call, its return, the delay, and only then the next call
    /\ events # <<>> => events[1].ev = "call"
    /\ \A k \in 1..(Len(events) - 1) :
          /\ events[k].ev = "call" =>
                events[k+1].ev = "return" /\ events[k+1].item = events[k].item
          /\ events[k].ev = "return" => events[k+1].ev = "sleep"
          /\ events[k].ev = "sleep" => events[k+1].ev = "call"
    /\ \A i, j \in 1..Len(events) :
          i < j /\ events[i].ev = "call" /\ events[j].ev = "call" =>
             \E k \in (i+1)..(j-1) : events[k].ev = "sleep"
    /\ pc = "sleep" => events[Len(events)].ev = "return"
    /\ pc \in {"loop"} \cup Writing /\ events # <<>> =>
          events[Len(events)].ev = "sleep"
    \* one call per record, in input order, none a second time
    /\ pc \notin {"idle"} => IsPrefix(Requested, items)
    /\ pc \in {"loop", "calling", "sleep"} =>
          Len(Requested) = (IF pc = "loop" THEN idx - 1 ELSE idx)
    /\ pc \in Writing => Requested = items
    /\ RecheckReturned /\ outcome = "complete" => Requested = nfBefore.data
    \* every answered call is the one entry of its record in the log
    /\ CalledOn(OfSort(events, "return")) = CalledOn(log)

\* a recheck has been through two different records: two calls, each answered
\* and each followed by the delay, and the loop is over
C11_Witness ==
    /\ cmd = "recheck" /\ pc = "open_found"
    /\ Len(items) = 2 /\ items[1] # items[2]
    /\ Len(events) = 6
    /\ Requested = items

====
